---- MODULE Spec2Model ----
(***************************************************************************)
(* Response validation of the casper client (client/lib/validation.rs).    *)
(* The three validators are pure functions of an untrusted JSON-RPC        *)
(* response and of trusted caller inputs.  The response universe is built  *)
(* from small alphabets; each validator is an operator computed step by    *)
(* step as the code computes it and applied by one action.                 *)
(***************************************************************************)
EXTENDS Integers, Sequences, FiniteSets, TLC

VARIABLES op, response, state_root_hash, key, path, maybe_block_identifier, result

vars == <<op, response, state_root_hash, key, path, maybe_block_identifier, result>>

----------------------------------------------------------------------------
(* Bounds of the input universe *)

MaxHexLen == 4
MaxDecLen == 2

HexAlphabet == {"0", "1", "2", "g"}
DecAlphabet == {"0", "1", "x"}
Digests == {1, 2}
Keys == {1, 2}
Paths == {<<>>, <<"a">>}
Heights == {10, 11}
Bodies == {0, 1}

SeqsUpTo(S, n) == UNION {[1..k -> S] : k \in 0..n}

----------------------------------------------------------------------------
(* Option and JSON values *)

None == <<>>
Some(x) == <<x>>
IsSome(o) == o # <<>>
Unwrap(o) == o[1]

JNull == [t |-> "null"]
JNum(n) == [t |-> "number", n |-> n]
JStr(s) == [t |-> "string", s |-> s]
JObj(f) == [t |-> "object", f |-> f]

\* serde_json::Value::get(name): the member of an object, None for a
\* missing member and for every value that is not an object
Get(value, name) ==
    IF value.t = "object" /\ name \in DOMAIN value.f
    THEN Some(value.f[name])
    ELSE None

\* serde_json::Value::as_object
as_object(value) == IF value.t = "object" THEN Some(value) ELSE None

\* serde_json::Value::as_str
as_str(value) == IF value.t = "string" THEN Some(value.s) ELSE None

\* JsonRpc::get_result: the result of a success response, None otherwise
get_result(resp) == IF resp.success THEN Some(resp.result) ELSE None

GET_ITEM_RESULT_BALANCE_VALUE == "balance_value"
GET_ITEM_RESULT_STORED_VALUE == "stored_value"
GET_ITEM_RESULT_MERKLE_PROOF == "merkle_proof"

Err(kind, at) == [kind |-> kind, at |-> at]
Ok == [kind |-> "Ok", at |-> "-"]
Pending == [kind |-> "Pending", at |-> "-"]

----------------------------------------------------------------------------
(* Codecs *)

HexChars == <<"0", "1", "2", "3", "4", "5", "6", "7", "8", "9",
              "a", "b", "c", "d", "e", "f">>

IsHexDigit(c) == \E i \in 1..Len(HexChars) : HexChars[i] = c
HexDigitValue(c) == (CHOOSE i \in 1..Len(HexChars) : HexChars[i] = c) - 1

\* hex::decode: an odd length or a character that is no hex digit is an
\* error; otherwise each pair of digits is one byte
hex_decode(s) ==
    IF Len(s) % 2 # 0 \/ \E i \in 1..Len(s) : ~IsHexDigit(s[i])
    THEN [ok |-> FALSE, bytes |-> <<>>]
    ELSE [ok |-> TRUE,
          bytes |-> [i \in 1..(Len(s) \div 2) |->
                        16 * HexDigitValue(s[2 * i - 1]) + HexDigitValue(s[2 * i])]]

\* One proof on the wire is one byte: the high nibble is the key of the
\* proof (1 or 2), the low nibble the stored value of its leaf (0..2).
ValidProofByte(b) == (b \div 16) \in Keys /\ (b % 16) \in 0..2
DecodeProof(b) == [key |-> b \div 16, value |-> b % 16]

\* bytesrepr::deserialize::<Vec<TrieMerkleProof>>
deserialize_proofs(bytes) ==
    IF \A i \in 1..Len(bytes) : ValidProofByte(bytes[i])
    THEN [ok |-> TRUE, val |-> [i \in 1..Len(bytes) |-> DecodeProof(bytes[i])]]
    ELSE [ok |-> FALSE, val |-> <<>>]

\* bytesrepr::deserialize::<(TrieMerkleProof, TrieMerkleProof)>: exactly two
\* proofs, no bytes missing and none left over
deserialize_proof_pair(bytes) ==
    IF Len(bytes) = 2 /\ \A i \in 1..Len(bytes) : ValidProofByte(bytes[i])
    THEN [ok |-> TRUE, val |-> <<DecodeProof(bytes[1]), DecodeProof(bytes[2])>>]
    ELSE [ok |-> FALSE, val |-> <<>>]

\* serde_json::from_value::<json_compatibility::StoredValue>: an object
\* {"CLValue": n} or {"Account": n}; everything else is a serde error
from_value_stored_value(value) ==
    IF value.t = "object" /\ Cardinality(DOMAIN value.f) = 1
       /\ DOMAIN value.f \subseteq {"CLValue", "Account"}
       /\ (\A n \in DOMAIN value.f : value.f[n].t = "number")
    THEN LET n == CHOOSE n \in DOMAIN value.f : TRUE
         IN [ok |-> TRUE, val |-> <<n, value.f[n].n>>]
    ELSE [ok |-> FALSE, val |-> <<>>]

\* json_compatibility::StoredValue::try_from(&StoredValue): stored value 0
\* is a CLValue, 1 an account; 2 has no JSON-compatible form
try_from_stored_value(v) ==
    CASE v = 0 -> [ok |-> TRUE, val |-> <<"CLValue", 0>>]
      [] v = 1 -> [ok |-> TRUE, val |-> <<"Account", 1>>]
      [] OTHER -> [ok |-> FALSE, val |-> <<>>]

RECURSIVE DecValue(_)
DecValue(s) ==
    IF s = <<>> THEN 0
    ELSE 10 * DecValue(SubSeq(s, 1, Len(s) - 1))
         + (IF s[Len(s)] = "1" THEN 1 ELSE 0)

\* U512::from_dec_str: the empty string and a non-digit are errors
from_dec_str(s) ==
    IF s = <<>> \/ \E i \in 1..Len(s) : s[i] \notin {"0", "1"}
    THEN [ok |-> FALSE, val |-> 0]
    ELSE [ok |-> TRUE, val |-> DecValue(s)]

----------------------------------------------------------------------------
(* The proof verifiers of the execution engine (core) *)

\* TrieMerkleProof::compute_state_hash: the digest the proof folds up to
compute_state_hash(proof) == ((proof.key + proof.value) % 2) + 1

\* the key a named key of an account leads to, None for a value without
\* named keys or without that name
named_key(value, name) == IF value = 1 /\ name = "a" THEN Some(2) ELSE None

RECURSIVE ChainOk(_, _, _, _)
ChainOk(root, proofs, path_, i) ==
    IF i > Len(proofs) THEN TRUE
    ELSE LET nk == named_key(proofs[i - 1].value, path_[i - 1])
         IN /\ IsSome(nk)
            /\ proofs[i].key = Unwrap(nk)
            /\ root = compute_state_hash(proofs[i])
            /\ ChainOk(root, proofs, path_, i + 1)

\* core::validate_query_proof: TRUE when the proofs are accepted
validate_query_proof(root, proofs, key_, path_, expected_value) ==
    /\ Len(proofs) = Len(path_) + 1
    /\ proofs[1].key = key_
    /\ root = compute_state_hash(proofs[1])
    /\ ChainOk(root, proofs, path_, 2)
    /\ proofs[Len(proofs)].value = expected_value

\* the balance key a purse value points to, None when it is no purse
purse_balance_key(value) ==
    CASE value = 1 -> Some(2)
      [] value = 2 -> Some(1)
      [] OTHER -> None

\* core::validate_balance_proof: TRUE when both hops are accepted
validate_balance_proof(root, purse_proof, balance_proof, key_, balance) ==
    /\ purse_proof.key = key_
    /\ root = compute_state_hash(purse_proof)
    /\ IsSome(purse_balance_key(purse_proof.value))
    /\ balance_proof.key = Unwrap(purse_balance_key(purse_proof.value))
    /\ root = compute_state_hash(balance_proof)
    /\ balance_proof.value = balance

----------------------------------------------------------------------------
(* validate_query_response *)

\* lines 79-85: the result of the envelope as an object
result_object(resp) ==
    LET value == get_result(resp)
    IN IF ~IsSome(value) THEN None ELSE as_object(Unwrap(value))

\* query_proofs with the structural decode failure collapsed into the
\* parse error
query_proofs_collapsed(object) ==
    LET proof == Get(object, GET_ITEM_RESULT_MERKLE_PROOF)
    IN IF ~IsSome(proof)
       THEN [kind |-> "ValidateResponseFailedToParse", val |-> <<>>]
       ELSE LET proof_str == as_str(Unwrap(proof))
            IN IF ~IsSome(proof_str)
               THEN [kind |-> "ValidateResponseFailedToParse", val |-> <<>>]
               ELSE LET proof_bytes == hex_decode(Unwrap(proof_str))
                    IN IF ~proof_bytes.ok
                       THEN [kind |-> "ValidateResponseFailedToParse", val |-> <<>>]
                       ELSE LET d == deserialize_proofs(proof_bytes.bytes)
                            IN IF ~d.ok
                               THEN [kind |-> "ValidateResponseFailedToParse", val |-> <<>>]
                               ELSE [kind |-> "Ok", val |-> d.val]

\* lines 87-97: the proofs of the merkle_proof field
query_proofs(object) ==
    LET proof == Get(object, GET_ITEM_RESULT_MERKLE_PROOF)
    IN IF ~IsSome(proof)
       THEN [kind |-> "ValidateResponseFailedToParse", val |-> <<>>]
       ELSE LET proof_str == as_str(Unwrap(proof))
            IN IF ~IsSome(proof_str)
               THEN [kind |-> "ValidateResponseFailedToParse", val |-> <<>>]
               ELSE LET proof_bytes == hex_decode(Unwrap(proof_str))
                    IN IF ~proof_bytes.ok
                       THEN [kind |-> "ValidateResponseFailedToParse", val |-> <<>>]
                       ELSE LET d == deserialize_proofs(proof_bytes.bytes)
                            IN IF ~d.ok
                               THEN [kind |-> "BytesRepr", val |-> <<>>]
                               ELSE [kind |-> "Ok", val |-> d.val]

\* stored_value_check accepting a proof value that has no JSON form
stored_value_check_lenient(object, proof_value) ==
    LET value == Get(object, GET_ITEM_RESULT_STORED_VALUE)
    IN IF ~IsSome(value)
       THEN Err("ValidateResponseFailedToParse", "d")
       ELSE LET v == from_value_stored_value(Unwrap(value))
            IN IF ~v.ok
               THEN Err("Serde", "d")
               ELSE LET json_proof_value == try_from_stored_value(proof_value)
                    IN IF json_proof_value.ok => json_proof_value.val = v.val
                       THEN Ok
                       ELSE Err("SerializedValueNotContainedInProof", "e")

\* stored_value_check reporting a mismatch as a validation error
stored_value_check_as_validation(object, proof_value) ==
    LET value == Get(object, GET_ITEM_RESULT_STORED_VALUE)
    IN IF ~IsSome(value)
       THEN Err("ValidateResponseFailedToParse", "d")
       ELSE LET v == from_value_stored_value(Unwrap(value))
            IN IF ~v.ok
               THEN Err("Serde", "d")
               ELSE LET json_proof_value == try_from_stored_value(proof_value)
                    IN IF json_proof_value.ok /\ json_proof_value.val = v.val
                       THEN Ok
                       ELSE Err("ValidationError", "e")

\* lines 110-121: the stored_value field against the value of the proof
stored_value_check(object, proof_value) ==
    LET value == Get(object, GET_ITEM_RESULT_STORED_VALUE)
    IN IF ~IsSome(value)
       THEN Err("ValidateResponseFailedToParse", "d")
       ELSE LET v == from_value_stored_value(Unwrap(value))
            IN IF ~v.ok
               THEN Err("Serde", "d")
               ELSE LET json_proof_value == try_from_stored_value(proof_value)
                    IN IF json_proof_value.ok /\ json_proof_value.val = v.val
                       THEN Ok
                       ELSE Err("SerializedValueNotContainedInProof", "e")

\* validate_query_response verifying against the key of the first proof
\* of the response instead of the key of the caller
validate_query_response_own_key(resp, state_root_hash_, key_, path_) ==
    LET object == result_object(resp)
    IN IF ~IsSome(object)
       THEN Err("ValidateResponseFailedToParse", "a")
       ELSE LET proofs == query_proofs(Unwrap(object))
            IN IF proofs.kind # "Ok"
               THEN Err(proofs.kind, "b")
               ELSE IF proofs.val = <<>>
                    THEN Err("ValidateResponseFailedToParse", "c")
                    ELSE LET proof_value == proofs.val[Len(proofs.val)].value
                             check == stored_value_check(Unwrap(object), proof_value)
                         IN IF check # Ok
                            THEN check
                            ELSE IF validate_query_proof(state_root_hash_, proofs.val,
                                                         proofs.val[1].key, path_,
                                                         proof_value)
                                 THEN Ok
                                 ELSE Err("ValidationError", "f")

validate_query_response(resp, state_root_hash_, key_, path_) ==
    LET object == result_object(resp)
    IN IF ~IsSome(object)
       THEN Err("ValidateResponseFailedToParse", "a")
       ELSE LET proofs == query_proofs(Unwrap(object))
            IN IF proofs.kind # "Ok"
               THEN Err(proofs.kind, "b")
               ELSE IF proofs.val = <<>>
                    THEN Err("ValidateResponseFailedToParse", "c")
                    ELSE LET proof_value == proofs.val[Len(proofs.val)].value
                             check == stored_value_check(Unwrap(object), proof_value)
                         IN IF check # Ok
                            THEN check
                            ELSE IF validate_query_proof(state_root_hash_, proofs.val,
                                                         key_, path_, proof_value)
                                 THEN Ok
                                 ELSE Err("ValidationError", "f")

----------------------------------------------------------------------------
(* validate_get_balance_response *)

\* lines 146-159: the purse proof and the balance proof of merkle_proof
balance_proofs(object) ==
    LET proof == Get(object, GET_ITEM_RESULT_MERKLE_PROOF)
    IN IF ~IsSome(proof)
       THEN [kind |-> "ValidateResponseFailedToParse", val |-> <<>>]
       ELSE LET proof_str == as_str(Unwrap(proof))
            IN IF ~IsSome(proof_str)
               THEN [kind |-> "ValidateResponseFailedToParse", val |-> <<>>]
               ELSE LET proof_bytes == hex_decode(Unwrap(proof_str))
                    IN IF ~proof_bytes.ok
                       THEN [kind |-> "ValidateResponseFailedToParse", val |-> <<>>]
                       ELSE LET d == deserialize_proof_pair(proof_bytes.bytes)
                            IN IF ~d.ok
                               THEN [kind |-> "BytesRepr", val |-> <<>>]
                               ELSE [kind |-> "Ok", val |-> d.val]

\* balance_of taking an unparsable balance_value for zero
balance_of_default(object) ==
    LET value == Get(object, GET_ITEM_RESULT_BALANCE_VALUE)
    IN IF ~IsSome(value)
       THEN [kind |-> "ValidateResponseFailedToParse", val |-> 0]
       ELSE LET value_str == as_str(Unwrap(value))
            IN IF ~IsSome(value_str)
               THEN [kind |-> "ValidateResponseFailedToParse", val |-> 0]
               ELSE LET n == from_dec_str(Unwrap(value_str))
                    IN [kind |-> "Ok", val |-> n.val]

\* lines 161-170: the balance of the balance_value field
balance_of(object) ==
    LET value == Get(object, GET_ITEM_RESULT_BALANCE_VALUE)
    IN IF ~IsSome(value)
       THEN [kind |-> "ValidateResponseFailedToParse", val |-> 0]
       ELSE LET value_str == as_str(Unwrap(value))
            IN IF ~IsSome(value_str)
               THEN [kind |-> "ValidateResponseFailedToParse", val |-> 0]
               ELSE LET n == from_dec_str(Unwrap(value_str))
                    IN IF ~n.ok
                       THEN [kind |-> "ValidateResponseFailedToParse", val |-> 0]
                       ELSE [kind |-> "Ok", val |-> n.val]

validate_get_balance_response(resp, state_root_hash_, key_) ==
    LET object == result_object(resp)
    IN IF ~IsSome(object)
       THEN Err("ValidateResponseFailedToParse", "r")
       ELSE LET proofs == balance_proofs(Unwrap(object))
            IN IF proofs.kind # "Ok"
               THEN Err(proofs.kind, "a")
               ELSE LET balance == balance_of(Unwrap(object))
                    IN IF balance.kind # "Ok"
                       THEN Err(balance.kind, "b")
                       ELSE IF validate_balance_proof(state_root_hash_, proofs.val[1],
                                                      proofs.val[2], key_, balance.val)
                            THEN Ok
                            ELSE Err("ValidationError", "c")

----------------------------------------------------------------------------
(* validate_get_block_response *)

BlockFields == {"hash", "height", "body_hash", "body"}

\* serde_json::from_value::<Option<Block>>: null is no block, an object
\* with the four numeric members is a block, everything else a serde error
from_value_block(value) ==
    IF value.t = "null"
    THEN [ok |-> TRUE, val |-> None]
    ELSE IF value.t = "object" /\ DOMAIN value.f = BlockFields
            /\ (\A n \in BlockFields : value.f[n].t = "number")
         THEN [ok |-> TRUE,
               val |-> Some([n \in BlockFields |-> value.f[n].n])]
         ELSE [ok |-> FALSE, val |-> None]

HeaderHash(height, body_hash) == ((height + body_hash) % 2) + 1
BodyHash(body) == body + 1

\* Block::verify: the declared hash is the hash of the header and the
\* body hash of the header is the hash of the body
verify(block) ==
    /\ block.hash = HeaderHash(block.height, block.body_hash)
    /\ block.body_hash = BodyHash(block.body)

\* block_value_of taking a null block member for a missing one
block_value_of_null_missing(resp) ==
    LET maybe_result == get_result(resp)
    IN IF ~IsSome(maybe_result)
       THEN None
       ELSE LET b == Get(Unwrap(maybe_result), "block")
            IN IF IsSome(b) /\ Unwrap(b).t = "null" THEN None ELSE b

\* lines 186-189: the block member of the result
block_value_of(resp) ==
    LET maybe_result == get_result(resp)
    IN IF ~IsSome(maybe_result) THEN None ELSE Get(Unwrap(maybe_result), "block")

\* identifier_check rejecting only a block below the requested height
identifier_check_at_least(block, maybe_id) ==
    IF ~IsSome(maybe_id)
    THEN Ok
    ELSE LET id == Unwrap(maybe_id)
         IN IF id.t = "Hash"
            THEN IF id.v # block.hash
                 THEN Err("UnexpectedBlockHash", "d")
                 ELSE Ok
            ELSE IF id.v > block.height
                 THEN Err("UnexpectedBlockHeight", "d")
                 ELSE Ok

\* lines 197-214: the block against the identifier of the caller
identifier_check(block, maybe_id) ==
    IF ~IsSome(maybe_id)
    THEN Ok
    ELSE LET id == Unwrap(maybe_id)
         IN IF id.t = "Hash"
            THEN IF id.v # block.hash
                 THEN Err("UnexpectedBlockHash", "d")
                 ELSE Ok
            ELSE IF id.v # block.height
                 THEN Err("UnexpectedBlockHeight", "d")
                 ELSE Ok

\* validate_get_block_response applying the identity check to a null block
validate_get_block_response_null_checked(resp, maybe_id) ==
    LET block_value == block_value_of(resp)
    IN IF ~IsSome(block_value)
       THEN Err("NoBlockInResponse", "a")
       ELSE LET maybe_block == from_value_block(Unwrap(block_value))
            IN IF ~maybe_block.ok
               THEN Err("Serde", "c")
               ELSE IF ~IsSome(maybe_block.val)
                    THEN IF IsSome(maybe_id) THEN Err("NoBlockInResponse", "a") ELSE Ok
                    ELSE LET block == Unwrap(maybe_block.val)
                         IN IF ~verify(block)
                            THEN Err("BlockValidationError", "c")
                            ELSE identifier_check(block, maybe_id)

\* validate_get_block_response checking the identity before verify
validate_get_block_response_identity_first(resp, maybe_id) ==
    LET block_value == block_value_of(resp)
    IN IF ~IsSome(block_value)
       THEN Err("NoBlockInResponse", "a")
       ELSE LET maybe_block == from_value_block(Unwrap(block_value))
            IN IF ~maybe_block.ok
               THEN Err("Serde", "c")
               ELSE IF ~IsSome(maybe_block.val)
                    THEN Ok
                    ELSE LET block == Unwrap(maybe_block.val)
                             check == identifier_check(block, maybe_id)
                         IN IF check # Ok
                            THEN check
                            ELSE IF ~verify(block)
                                 THEN Err("BlockValidationError", "c")
                                 ELSE Ok

validate_get_block_response(resp, maybe_id) ==
    LET block_value == block_value_of(resp)
    IN IF ~IsSome(block_value)
       THEN Err("NoBlockInResponse", "a")
       ELSE LET maybe_block == from_value_block(Unwrap(block_value))
            IN IF ~maybe_block.ok
               THEN Err("Serde", "c")
               ELSE IF ~IsSome(maybe_block.val)
                    THEN Ok
                    ELSE LET block == Unwrap(maybe_block.val)
                         IN IF ~verify(block)
                            THEN Err("BlockValidationError", "c")
                            ELSE identifier_check(block, maybe_id)

----------------------------------------------------------------------------
(* The responses a remote node can send *)

\* an object with the members that are present
Members(names, vals) ==
    JObj([n \in {m \in DOMAIN names : IsSome(vals[m])} |-> Unwrap(vals[n])])

Envelope(value) == [success |-> TRUE, result |-> value]
ErrorResponse == [success |-> FALSE, result |-> JNull]

MerkleProofValues ==
    {None, Some(JNum(0))} \cup {Some(JStr(s)) : s \in SeqsUpTo(HexAlphabet, MaxHexLen)}

StoredValueValues ==
    {None, Some(JStr(<<"x">>)),
     Some(JObj([CLValue |-> JNum(0)])), Some(JObj([Account |-> JNum(1)])),
     Some(JObj([CLValue |-> JNum(1)]))}

BalanceValueValues ==
    {None, Some(JNum(1))} \cup {Some(JStr(s)) : s \in SeqsUpTo(DecAlphabet, MaxDecLen)}

BlockValues ==
    {None, Some(JNull), Some(JNum(0)), Some(JObj([hash |-> JNum(1)]))}
    \cup {Some(JObj([hash |-> JNum(h), height |-> JNum(n),
                     body_hash |-> JNum(bh), body |-> JNum(b)])) :
            h \in Digests, n \in Heights, bh \in Digests, b \in Bodies}

NonObjectResponses == {ErrorResponse, Envelope(JStr(<<"x">>))}

QueryResponses ==
    NonObjectResponses \cup
    {Envelope(Members([merkle_proof |-> 0, stored_value |-> 0],
                      [merkle_proof |-> mp, stored_value |-> sv])) :
        mp \in MerkleProofValues, sv \in StoredValueValues}

BalanceResponses ==
    NonObjectResponses \cup
    {Envelope(Members([merkle_proof |-> 0, balance_value |-> 0],
                      [merkle_proof |-> mp, balance_value |-> bv])) :
        mp \in MerkleProofValues, bv \in BalanceValueValues}

BlockResponses ==
    NonObjectResponses \cup
    {Envelope(Members([block |-> 0], [block |-> b])) : b \in BlockValues}

BlockIdentifiers ==
    {None} \cup {Some([t |-> "Hash", v |-> h]) : h \in Digests}
           \cup {Some([t |-> "Height", v |-> n]) : n \in Heights}

----------------------------------------------------------------------------
(* The state machine: one response, one call of the validator for it *)

Init ==
    /\ result = Pending
    /\ state_root_hash \in Digests
    /\ key \in Keys
    /\ \/ /\ op = "query"
          /\ response \in QueryResponses
          /\ path \in Paths
          /\ maybe_block_identifier = None
       \/ /\ op = "balance"
          /\ response \in BalanceResponses
          /\ path = <<>>
          /\ maybe_block_identifier = None
       \/ /\ op = "block"
          /\ response \in BlockResponses
          /\ path = <<>>
          /\ maybe_block_identifier \in BlockIdentifiers

ValidateQuery ==
    /\ op = "query"
    /\ result = Pending
    /\ result' = validate_query_response(response, state_root_hash, key, path)
    /\ UNCHANGED <<op, response, state_root_hash, key, path, maybe_block_identifier>>

ValidateBalance ==
    /\ op = "balance"
    /\ result = Pending
    /\ result' = validate_get_balance_response(response, state_root_hash, key)
    /\ UNCHANGED <<op, response, state_root_hash, key, path, maybe_block_identifier>>

ValidateBlock ==
    /\ op = "block"
    /\ result = Pending
    /\ result' = validate_get_block_response(response, maybe_block_identifier)
    /\ UNCHANGED <<op, response, state_root_hash, key, path, maybe_block_identifier>>

Next == ValidateQuery \/ ValidateBalance \/ ValidateBlock

Spec == Init /\ [][Next]_vars

----------------------------------------------------------------------------
(* What the response of the current state holds *)

Done == result # Pending

HasObject == response.success /\ response.result.t = "object"
Member(name) == Get(response.result, name)

\* how far the merkle_proof member gets on its way to a list of proofs
ProofField ==
    IF ~IsSome(Member("merkle_proof")) THEN "missing"
    ELSE IF Unwrap(Member("merkle_proof")).t # "string" THEN "not_string"
    ELSE LET bytes == hex_decode(Unwrap(Member("merkle_proof")).s)
         IN IF ~bytes.ok THEN "bad_hex"
            ELSE IF ~deserialize_proofs(bytes.bytes).ok THEN "bad_structure"
            ELSE "decoded"

Proofs == deserialize_proofs(hex_decode(Unwrap(Member("merkle_proof")).s).bytes).val
LastValue == Proofs[Len(Proofs)].value
HasProofs == HasObject /\ ProofField = "decoded" /\ Proofs # <<>>

HasStoredValue ==
    /\ IsSome(Member("stored_value"))
    /\ from_value_stored_value(Unwrap(Member("stored_value"))).ok
StoredValue == from_value_stored_value(Unwrap(Member("stored_value"))).val
CrossCheckPasses ==
    /\ try_from_stored_value(LastValue).ok
    /\ try_from_stored_value(LastValue).val = StoredValue

HasProofPair ==
    /\ HasObject
    /\ ProofField \in {"decoded", "bad_structure"}
    /\ deserialize_proof_pair(hex_decode(Unwrap(Member("merkle_proof")).s).bytes).ok
BalanceParses ==
    /\ IsSome(Member("balance_value"))
    /\ Unwrap(Member("balance_value")).t = "string"
    /\ from_dec_str(Unwrap(Member("balance_value")).s).ok
Balance == from_dec_str(Unwrap(Member("balance_value")).s).val

HasBlockMember == response.success /\ IsSome(Member("block"))
BlockMember == Unwrap(Member("block"))
HasBlock ==
    /\ HasBlockMember
    /\ BlockMember.t # "null"
    /\ from_value_block(BlockMember).ok
TheBlock == Unwrap(from_value_block(BlockMember).val)
Requested == Unwrap(maybe_block_identifier)

----------------------------------------------------------------------------
(* Claims *)

\* C1: for a response with a non-null block that passes verify, identifier
\* Hash(h) gives Ok exactly when h is the hash of the block and
\* UnexpectedBlockHash otherwise, Height(n) gives Ok exactly when n is the
\* height of the block and UnexpectedBlockHeight otherwise, and no
\* identifier always gives Ok.
C1_BlockIdentity ==
    (op = "block" /\ Done /\ HasBlock /\ verify(TheBlock)) =>
        IF ~IsSome(maybe_block_identifier)
        THEN result = Ok
        ELSE IF Requested.t = "Hash"
             THEN /\ (Requested.v = TheBlock.hash) <=> (result = Ok)
                  /\ (Requested.v # TheBlock.hash) <=> (result.kind = "UnexpectedBlockHash")
             ELSE /\ (Requested.v = TheBlock.height) <=> (result = Ok)
                  /\ (Requested.v # TheBlock.height)
                        <=> (result.kind = "UnexpectedBlockHeight")

\* a verified block of height 10 requested at height 11 is refused
C1_Witness ==
    /\ op = "block" /\ Done /\ HasBlock /\ verify(TheBlock)
    /\ TheBlock.height = 10
    /\ maybe_block_identifier = Some([t |-> "Height", v |-> 11])
    /\ result.kind = "UnexpectedBlockHeight"

\* C2: a response whose stored_value decodes to a value other than the JSON
\* form of the value of the last proof, or whose proof value has no JSON
\* form, is rejected with SerializedValueNotContainedInProof, whether or
\* not the verifier would accept the proofs.
C2_CrossCheck ==
    (op = "query" /\ Done /\ HasProofs /\ HasStoredValue /\ ~CrossCheckPasses) =>
        result.kind = "SerializedValueNotContainedInProof"

\* the proofs verify against the trusted root, the stored_value differs
C2_Witness ==
    /\ op = "query" /\ Done /\ HasProofs /\ HasStoredValue
    /\ try_from_stored_value(LastValue).ok
    /\ try_from_stored_value(LastValue).val # StoredValue
    /\ validate_query_proof(state_root_hash, Proofs, key, path, LastValue)
    /\ result.kind = "SerializedValueNotContainedInProof"

\* C3: Ok only if the verifier accepts the proofs of the response for the
\* root hash, key and path of the caller and the value of the last proof;
\* when every earlier step passed and the verifier rejects, the result is
\* ValidationError; a proof for another key is never accepted.
C3_VerifierDecides ==
    (op = "query" /\ Done) =>
        /\ (result = Ok) =>
              /\ HasProofs
              /\ validate_query_proof(state_root_hash, Proofs, key, path, LastValue)
        /\ (/\ HasProofs /\ HasStoredValue /\ CrossCheckPasses
            /\ ~validate_query_proof(state_root_hash, Proofs, key, path, LastValue))
              => result.kind = "ValidationError"
        /\ (HasProofs /\ Proofs[1].key # key) => result # Ok

\* a proof that folds up to the trusted root, for another key than requested
C3_Witness ==
    /\ op = "query" /\ Done /\ HasProofs /\ HasStoredValue /\ CrossCheckPasses
    /\ Len(Proofs) = Len(path) + 1
    /\ Proofs[1].key # key
    /\ compute_state_hash(Proofs[1]) = state_root_hash
    /\ result.kind = "ValidationError"

\* C4 as stated: every failure to obtain the proofs from merkle_proof
\* (missing, no string, no hex, no proof structure) yields
\* ValidateResponseFailedToParse.
C4_Original ==
    (op = "query" /\ Done /\ HasObject /\ ProofField # "decoded") =>
        result.kind = "ValidateResponseFailedToParse"

\* C4 amended: a missing member, a member that is no string and a hex
\* decode failure yield ValidateResponseFailedToParse; a structural decode
\* failure of the decoded bytes yields BytesRepr.
C4_ProofDecodeErrors ==
    (op = "query" /\ Done /\ HasObject) =>
        /\ (ProofField \in {"missing", "not_string", "bad_hex"})
              => result.kind = "ValidateResponseFailedToParse"
        /\ (ProofField = "bad_structure") => result.kind = "BytesRepr"

\* hex digits that are no proof
C4_Witness ==
    /\ op = "query" /\ Done /\ HasObject
    /\ ProofField = "bad_structure"
    /\ result.kind = "BytesRepr"

C6_NullBlock ==
    (op = "block" /\ Done /\ HasBlockMember /\ BlockMember.t = "null") =>
        result = Ok

\* a null block requested by hash
C6_Witness ==
    /\ op = "block" /\ Done /\ HasBlockMember /\ BlockMember.t = "null"
    /\ IsSome(maybe_block_identifier)
    /\ Requested.t = "Hash"
    /\ result = Ok

\* C7: NoBlockInResponse exactly when the response has no result or the
\* result has no block member; a malformed block is a Serde error, a null
\* block Ok, and a missing block is never ValidateResponseFailedToParse.
C7_NoBlock ==
    (op = "block" /\ Done) =>
        /\ (result.kind = "NoBlockInResponse") <=> ~HasBlockMember
        /\ (HasBlockMember /\ ~from_value_block(BlockMember).ok)
              => result.kind = "Serde"
        /\ (HasBlockMember /\ BlockMember.t = "null") => result = Ok
        /\ result.kind # "ValidateResponseFailedToParse"

\* a result that is an object without a block member
C7_Witness ==
    /\ op = "block" /\ Done
    /\ HasObject /\ ~HasBlockMember
    /\ result.kind = "NoBlockInResponse"

\* the responses the current one is compared with
QueryProbes ==
    NonObjectResponses \cup
    {Envelope(Members([merkle_proof |-> 0, stored_value |-> 0],
                      [merkle_proof |-> mp, stored_value |-> sv])) :
        mp \in {None, Some(JNum(0)), Some(JStr(<<>>)), Some(JStr(<<"0", "0">>))},
        sv \in StoredValueValues}

\* C8 as stated: failures at two different points of
\* validate_query_response never return the same error kind.
C8_Original ==
    (op = "query" /\ Done /\ result # Ok) =>
        \A other \in QueryProbes :
            LET r == validate_query_response(other, state_root_hash, key, path)
            IN (r # Ok /\ r.at # result.at) => r.kind # result.kind

\* C8 amended: the cross-check (e) and the chain verification (f) return
\* kinds returned at no other point; BytesRepr is returned only at (b) and
\* Serde only at (d); the envelope (a), the empty proof list (c) and the
\* missing members of (b) and (d) share ValidateResponseFailedToParse.
C8_ErrorKinds ==
    (op = "query" /\ Done /\ result # Ok) =>
        /\ (result.kind = "SerializedValueNotContainedInProof") <=> (result.at = "e")
        /\ (result.kind = "ValidationError") <=> (result.at = "f")
        /\ (result.kind = "BytesRepr") => (result.at = "b")
        /\ (result.kind = "Serde") => (result.at = "d")
        /\ (result.at \in {"a", "c"}) => result.kind = "ValidateResponseFailedToParse"
        /\ (result.kind = "ValidateResponseFailedToParse")
              => result.at \in {"a", "b", "c", "d"}
        /\ (result.at = "b" /\ ProofField # "bad_structure")
              => result.kind = "ValidateResponseFailedToParse"
        /\ (result.at = "d" /\ ~IsSome(Member("stored_value")))
              => result.kind = "ValidateResponseFailedToParse"

\* a missing stored_value returns the kind a missing result returns
C8_Witness ==
    /\ op = "query" /\ Done /\ HasProofs
    /\ ~IsSome(Member("stored_value"))
    /\ result = Err("ValidateResponseFailedToParse", "d")
    /\ validate_query_response(ErrorResponse, state_root_hash, key, path)
          = Err("ValidateResponseFailedToParse", "a")

\* C10: a non-null block that fails verify is BlockValidationError for
\* every identifier, also when its declared hash or height is the
\* requested one.
C10_VerifyFirst ==
    (op = "block" /\ Done /\ HasBlock /\ ~verify(TheBlock)) =>
        result.kind = "BlockValidationError"

\* a block that fails verify and declares the requested hash
C10_Witness ==
    /\ op = "block" /\ Done /\ HasBlock /\ ~verify(TheBlock)
    /\ IsSome(maybe_block_identifier)
    /\ Requested.t = "Hash"
    /\ Requested.v = TheBlock.hash
    /\ result.kind = "BlockValidationError"

====
